---- MODULE Spec2Model ----
(***************************************************************************)
(* Model of DiscordStatusManager (src/discord_status.py): the config       *)
(* loader, the presence adapter (connect / disconnect / update_status),    *)
(* the run_continuous loop and the main entry point.                       *)
(*                                                                         *)
(* The external collaborators (the pypresence handle, the file system,     *)
(* the wall clock, the interrupt signal) are nondeterministic: every call  *)
(* on them may succeed or raise, and an interrupt may arrive wherever the  *)
(* code can be interrupted.                                                *)
(***************************************************************************)
EXTENDS Integers, Sequences, FiniteSets, TLC

\* ---------------------------------------------------------------- bounds
\* API calls a client makes on one manager (connect, disconnect,
\* update_status, run_continuous).
MaxCalls == 3
\* Sleeps of one run_continuous loop that the model follows.
MaxTicks == 3
\* How much longer than asked a time.sleep may take.
MaxJitter == 1

\* ------------------------------------------------------- Python values
\* Python's None for the string-valued fields (no field value of the model
\* is this string).
None == "<None>"
\* Optional[int]: <<>> is None, <<n>> is the integer n.
NoneInt == <<>>
SomeInt(n) == <<n>>

\* bool(v) for a string-or-None value.
Truthy(v) == v # None /\ v # ""
\* Python's `a or b`.
PyOr(a, b) == IF Truthy(a) THEN a ELSE b
\* bool(d) for an Optional[int].
TruthyInt(d) == d # NoneInt /\ d[1] # 0

\* ------------------------------------------------------------- config
\* A parsed JSON document: an object (a dict) or something else (a list).
JDict(items) == [kind |-> "dict", items |-> items]
JList == [kind |-> "list", items |-> <<>>]

DefaultInterval == 15
\* The interval run_continuous falls back to when the config has none.
FallbackInterval == 15

\* The dict load_config returns when the file gives nothing.
DefaultConfigItems ==
    [state |-> "Playing a game",
     details |-> "Enjoying Discord",
     large_image |-> "discord",
     large_text |-> "Discord Rich Presence",
     small_image |-> None,
     small_text |-> None,
     update_interval |-> DefaultInterval,
     auto_start |-> TRUE]

\* Contents a config file on disk may have. Garbage is text json.load rejects.
Garbage == [kind |-> "garbage", items |-> <<>>]
CustomItems ==
    [state |-> "Custom", details |-> "", large_image |-> "img",
     large_text |-> "txt", small_image |-> "small", small_text |-> "",
     update_interval |-> 7, client_id |-> "file-id"]
NegativeItems == [state |-> "Neg", update_interval |-> -1]
ZeroItems == [details |-> "Zero", update_interval |-> 0]
EmptyItems == [x \in {} |-> None]

FileTexts ==
    {Garbage, JList, JDict(DefaultConfigItems), JDict(CustomItems),
     JDict(NegativeItems), JDict(ZeroItems), JDict(EmptyItems)}

\* The config file: whether os.path.exists finds it, whether open() works,
\* and its content.
NoFile == [exists |-> FALSE, readable |-> FALSE, text |-> Garbage]
Files ==
    {NoFile}
    \cup {[exists |-> TRUE, readable |-> FALSE, text |-> JDict(CustomItems)]}
    \cup {[exists |-> TRUE, readable |-> TRUE, text |-> t] : t \in FileTexts}

\* open(f) followed by json.load(f): the parsed value, or an exception.
JsonLoadFile(f) ==
    IF ~f.readable \/ f.text.kind = "garbage"
    THEN [raised |-> TRUE, value |-> JList]
    ELSE [raised |-> FALSE, value |-> f.text]

\* load_config: the result and whether an exception left the method.
\* (Variant: the except clause returns an empty dict.)
load_config_broken(f) ==
    IF f.exists
    THEN LET r == JsonLoadFile(f)
         IN  IF r.raised
             THEN [raised |-> FALSE, value |-> JDict(EmptyItems)]
             ELSE [raised |-> FALSE, value |-> r.value]
    ELSE [raised |-> FALSE, value |-> JDict(DefaultConfigItems)]

load_config(f) ==
    IF f.exists
    THEN LET r == JsonLoadFile(f)
         IN  IF r.raised
             THEN [raised |-> FALSE, value |-> JDict(DefaultConfigItems)]
             ELSE [raised |-> FALSE, value |-> r.value]
    ELSE [raised |-> FALSE, value |-> JDict(DefaultConfigItems)]

\* cfg.get(k) and cfg.get(k, d) on a dict; on a list the attribute lookup
\* raises (ConfigGetRaises).
ConfigGetRaises(cfg) == cfg.kind # "dict"
ConfigGetOr(cfg, k, d) == IF k \in DOMAIN cfg.items THEN cfg.items[k] ELSE d
ConfigGet(cfg, k) == ConfigGetOr(cfg, k, None)

\* ------------------------------------------------------------ payload
RequiredKeys == {"state", "details", "large_image", "large_text"}
SmallKeys == {"small_image", "small_text"}
ExtraKeys == {"party_id", "party_size", "buttons"}
ArgKeys == RequiredKeys \cup SmallKeys \cup ExtraKeys

\* One field of update_data: the argument, else the config value.
MergeField(arg, cfgval) == PyOr(arg, cfgval)

\* The keyword arguments handed to rpc.update, or the exception raised while
\* they are assembled.
BuildUpdateData(args, cfg, t) ==
    IF ConfigGetRaises(cfg)
    THEN [raised |-> TRUE, data |-> EmptyItems]
    ELSE LET merged(k) == MergeField(args[k], ConfigGet(cfg, k))
             keys == RequiredKeys \cup {"start"}
                     \cup {k \in SmallKeys : Truthy(merged(k))}
                     \cup {k \in ExtraKeys : Truthy(args[k])}
         IN  [raised |-> FALSE,
              data |-> [k \in keys |->
                          IF k = "start" THEN t
                          ELSE IF k \in ExtraKeys THEN args[k]
                          ELSE merged(k)]]

NoArgs == [k \in ArgKeys |-> None]
\* The arguments main passes (src/discord_status.py:229-234).
MainArgs ==
    [k \in ArgKeys |->
        CASE k = "state" -> "Playing Elden Ring"
          [] k = "details" -> "Exploring the Lands Between"
          [] k = "large_image" -> "discord"
          [] k = "large_text" -> "Discord Rich Presence"
          [] OTHER -> None]

\* Argument sets a client passes to update_status: in Spec a few, in
\* SpecMerge every combination over the six config-backed fields.
EmptyStrArgs ==
    [k \in ArgKeys |->
        IF k \in {"state", "small_image"} THEN ""
        ELSE IF k = "party_id" THEN "party" ELSE None]
SpecArgs == {NoArgs, MainArgs, EmptyStrArgs}
ArgValues == {None, "", "arg"}
AllArgs ==
    {[k \in ArgKeys |-> IF k \in ExtraKeys THEN None ELSE f[k]] :
        f \in [RequiredKeys \cup SmallKeys -> ArgValues]}

\* -------------------------------------------------------------- state
VARIABLES
    driver,          \* "api": a client calls the methods; "main": main() runs
    pc,              \* where the program is
    env_client_id,   \* os.environ.get("DISCORD_CLIENT_ID")
    file,            \* discord_config.json on disk
    config,          \* self.config
    rpc,             \* self.rpc: 0 is None, n > 0 the n-th Presence handle
    is_connected,    \* self.is_connected
    nextHandle,      \* Presence handles constructed so far
    live,            \* handles whose connect succeeded, not yet close()d
    now,             \* time.time(), in seconds since the current run began
    start_time,      \* run_continuous: start_time
    duration,        \* run_continuous: duration (Optional[int])
    update_interval, \* run_continuous: update_interval
    ticks,           \* sleeps of the current run
    calls,           \* API calls made so far
    lastOp,          \* the last method called
    lastResult,      \* what it returned ("True", "False", "None") or "raised"
    lastExt,         \* external calls (rpc.update / rpc.close) it made
    lastArgs,        \* arguments of the last update_status call
    lastPayload,     \* keyword arguments of the last rpc.update call
    runUpdates,      \* update_status calls made by the current run
    runExtUpdates,   \* rpc.update calls made by the current run
    runDisconnects,  \* disconnect calls made by the current run
    runExit,         \* how the current run left its loop
    exit_code        \* main's exit code (Optional[int])

vars ==
    <<driver, pc, env_client_id, file, config, rpc, is_connected, nextHandle,
      live, now, start_time, duration, update_interval, ticks,
      calls, lastOp, lastResult, lastExt, lastArgs, lastPayload, runUpdates,
      runExtUpdates, runDisconnects, runExit, exit_code>>

envVars == <<driver, env_client_id>>
connVars == <<rpc, is_connected, nextHandle, live>>
runVars == <<start_time, duration, update_interval, ticks>>
runObs == <<runUpdates, runExtUpdates, runDisconnects, runExit>>
updObs == <<lastArgs, lastPayload>>

NoPayload == [k \in {} |-> None]
EnvIds == {None, "", "env-id"}
Durations == {NoneInt, SomeInt(0), SomeInt(10)}

ConnectOutcomes == {"ok", "ctor_raises", "connect_raises"}
CloseOutcomes == {"ok", "raises"}
UpdateOutcomes == {"ok", "raises"}
InterruptOutcomes == {"interrupt_before", "interrupt_during"}

\* __init__ (with "new": before it ran) and the start of main.
Init ==
    /\ driver \in {"api", "main"}
    /\ pc = IF driver = "api" THEN "new" ELSE "main"
    /\ env_client_id \in IF driver = "api" THEN {None} ELSE EnvIds
    /\ file \in Files
    /\ config = JDict(EmptyItems)
    /\ rpc = 0
    /\ is_connected = FALSE
    /\ nextHandle = 0
    /\ live = {}
    /\ now = 0
    /\ start_time = 0
    /\ duration = NoneInt
    /\ update_interval = 0
    /\ ticks = 0
    /\ calls = 0
    /\ lastOp = "none"
    /\ lastResult = "None"
    /\ lastExt = 0
    /\ lastArgs = NoArgs
    /\ lastPayload = NoPayload
    /\ runUpdates = 0
    /\ runExtUpdates = 0
    /\ runDisconnects = 0
    /\ runExit = "none"
    /\ exit_code = NoneInt

\* ------------------------------------------------ the adapter's methods
\* connect (lines 69-78): the Presence constructor or its connect may raise.
\* (Variant: the except clause without line 77.)
ConnectEff_keepsFlag(o) ==
    /\ rpc' = IF o = "ctor_raises" THEN rpc ELSE nextHandle + 1
    /\ nextHandle' = IF o = "ctor_raises" THEN nextHandle ELSE nextHandle + 1
    /\ is_connected' = IF o = "ok" THEN TRUE ELSE is_connected
    /\ live' = IF o = "ok" THEN live \cup {nextHandle + 1} ELSE live

ConnectEff(o) ==
    /\ rpc' = IF o = "ctor_raises" THEN rpc ELSE nextHandle + 1
    /\ nextHandle' = IF o = "ctor_raises" THEN nextHandle ELSE nextHandle + 1
    /\ is_connected' = (o = "ok")
    /\ live' = IF o = "ok" THEN live \cup {nextHandle + 1} ELSE live

\* disconnect's guard (line 82): whether rpc.close() is called.
DisconnectCloses == rpc # 0 /\ is_connected

\* disconnect (lines 82-88): a raising close() is swallowed, and leaves the
\* flag as it was.
DisconnectEff(o) ==
    /\ rpc' = rpc
    /\ nextHandle' = nextHandle
    /\ IF DisconnectCloses
       THEN /\ is_connected' = IF o = "ok" THEN FALSE ELSE is_connected
            /\ live' = live \ {rpc}
       ELSE UNCHANGED <<is_connected, live>>

\* update_status's guard (line 119).
\* (Variant: only `not self.rpc` is tested.)
UpdateRefused_rpcOnly == rpc = 0

UpdateRefused == ~is_connected \/ rpc = 0

\* Whether update_status reaches rpc.update (line 149).
UpdateCallsExternal(args, o) ==
    /\ ~UpdateRefused
    /\ ~BuildUpdateData(args, config, now).raised
    /\ o # "interrupt_before"

\* What update_status returns; a KeyboardInterrupt is no Exception and
\* leaves the method.
UpdateResult(args, o) ==
    IF UpdateRefused THEN "False"
    ELSE IF o = "interrupt_before" THEN "KeyboardInterrupt"
    ELSE IF BuildUpdateData(args, config, now).raised THEN "False"
    ELSE IF o = "interrupt_during" THEN "KeyboardInterrupt"
    ELSE IF o = "ok" THEN "True"
    ELSE "False"

\* update_status (lines 119-155).
UpdateEff(args, o) ==
    /\ lastArgs' = args
    /\ lastPayload' = IF UpdateCallsExternal(args, o)
                      THEN BuildUpdateData(args, config, now).data
                      ELSE NoPayload
    /\ lastResult' = UpdateResult(args, o)

\* An API call begins: what the previous run_continuous call left behind
\* (its locals, its counts) is gone.
ResetRunObs ==
    /\ now' = 0
    /\ start_time' = 0
    /\ duration' = NoneInt
    /\ update_interval' = 0
    /\ ticks' = 0
    /\ runUpdates' = 0
    /\ runExtUpdates' = 0
    /\ runDisconnects' = 0
    /\ runExit' = "none"

ResetUpdObs ==
    /\ lastArgs' = NoArgs
    /\ lastPayload' = NoPayload

\* ------------------------------------------------- API calls of a client
\* DiscordStatusManager(client_id): __init__ loads the config.
Construct ==
    /\ pc = "new"
    /\ pc' = "api"
    /\ config' = load_config(file).value
    /\ lastOp' = "__init__"
    /\ lastResult' = IF load_config(file).raised THEN "raised" ELSE "None"
    /\ UNCHANGED <<envVars, file, connVars, now, runVars, calls, lastExt,
                   updObs, runObs, exit_code>>

Connect(o) ==
    /\ pc = "api"
    /\ calls < MaxCalls
    /\ calls' = calls + 1
    /\ ConnectEff(o)
    /\ lastOp' = "connect"
    /\ lastResult' = IF o = "ok" THEN "True" ELSE "False"
    /\ lastExt' = 0
    /\ ResetRunObs
    /\ ResetUpdObs
    /\ UNCHANGED <<envVars, pc, file, config, exit_code>>

Disconnect(o) ==
    /\ pc = "api"
    /\ calls < MaxCalls
    /\ calls' = calls + 1
    /\ DisconnectEff(o)
    /\ lastOp' = "disconnect"
    /\ lastResult' = "None"
    /\ lastExt' = IF DisconnectCloses THEN 1 ELSE 0
    /\ ResetRunObs
    /\ ResetUpdObs
    /\ UNCHANGED <<envVars, pc, file, config, exit_code>>

UpdateStatusWith(args, o) ==
    /\ pc = "api"
    /\ calls < MaxCalls
    /\ calls' = calls + 1
    /\ UpdateEff(args, o)
    /\ lastOp' = "update_status"
    /\ lastExt' = IF UpdateCallsExternal(args, o) THEN 1 ELSE 0
    /\ ResetRunObs
    /\ UNCHANGED <<envVars, pc, file, config, connVars, exit_code>>

UpdateStatus == \E args \in SpecArgs, o \in UpdateOutcomes : UpdateStatusWith(args, o)

\* ----------------------------------------------------- run_continuous
\* run_continuous returns (result "None") or an exception leaves it
\* ("raised"); under main the process then ends.
RunReturns(result) ==
    /\ lastResult' = result
    /\ IF driver = "api"
       THEN pc' = "api" /\ exit_code' = exit_code
       ELSE pc' = "exited" /\ exit_code' = SomeInt(IF result = "raised" THEN 1 ELSE 0)

\* Lines 164-168: connect, then start_time and update_interval. The
\* config lookup of line 168 is outside the try block.
RunStart(d, o) ==
    /\ \/ pc = "api" /\ calls < MaxCalls /\ calls' = calls + 1 /\ d \in Durations
       \/ pc = "main_run" /\ calls' = calls /\ d = NoneInt
    /\ ConnectEff(o)
    /\ lastOp' = "run_continuous"
    /\ lastExt' = 0
    /\ ResetUpdObs
    /\ runUpdates' = 0
    /\ runExtUpdates' = 0
    /\ runDisconnects' = 0
    /\ duration' = d
    /\ ticks' = 0
    /\ now' = 0
    /\ start_time' = now'
    /\ IF o # "ok"
       THEN /\ runExit' = "connect_failed"
            /\ update_interval' = update_interval
            /\ RunReturns("None")
       ELSE IF ConfigGetRaises(config)
       THEN /\ runExit' = "raised"
            /\ update_interval' = update_interval
            /\ RunReturns("raised")
       ELSE /\ runExit' = "none"
            /\ update_interval' = ConfigGetOr(config, "update_interval", FallbackInterval)
            /\ lastResult' = "True"
            /\ pc' = "rc_first"
            /\ exit_code' = exit_code
    /\ UNCHANGED <<envVars, file, config>>

\* Where an update_status call of the run goes next: a KeyboardInterrupt
\* reaches the except clause of line 187, anything else the loop.
\* (Variant: a False result ends the loop.)
AfterRunUpdate_fatal(result) ==
    IF result = "True" THEN "rc_check" ELSE "rc_finally"

AfterRunUpdate(result) ==
    IF result = "KeyboardInterrupt" THEN "rc_finally" ELSE "rc_check"

\* self.update_status() of lines 178 and 185.
RunUpdate(o) ==
    /\ UpdateEff(NoArgs, o)
    /\ runUpdates' = runUpdates + 1
    /\ runExtUpdates' = runExtUpdates + IF UpdateCallsExternal(NoArgs, o) THEN 1 ELSE 0
    /\ pc' = AfterRunUpdate(UpdateResult(NoArgs, o))
    /\ runExit' = IF UpdateResult(NoArgs, o) = "KeyboardInterrupt"
                  THEN "update_interrupt" ELSE runExit
    /\ UNCHANGED <<envVars, file, config, connVars, now, runVars, calls,
                   lastOp, lastExt, runDisconnects, exit_code>>

\* Line 178.
RC_FirstUpdate(o) ==
    /\ pc = "rc_first"
    /\ RunUpdate(o)

\* Line 181: the test that ends the loop.
\* (Variant: the difference is taken the wrong way round.)
DurationElapsed_swapped == TruthyInt(duration) /\ (start_time - now) > duration[1]

DurationElapsed == TruthyInt(duration) /\ (now - start_time) > duration[1]

RC_Check ==
    /\ pc = "rc_check"
    /\ IF DurationElapsed
       THEN pc' = "rc_finally" /\ runExit' = "duration"
       ELSE pc' = "rc_sleep" /\ runExit' = runExit
    /\ UNCHANGED <<envVars, file, config, connVars, now, runVars, calls,
                   lastOp, lastResult, lastExt, updObs, runUpdates,
                   runExtUpdates, runDisconnects, exit_code>>

\* Where the run goes when the sleep is interrupted.
\* (Variant: the interrupt only cuts the sleep short.)
AfterSleepInterrupt_update == "rc_update"

AfterSleepInterrupt == "rc_finally"

\* Line 184: time.sleep raises ValueError on a negative interval, which
\* the except clause of line 189 catches.
RC_Sleep(j) ==
    /\ pc = "rc_sleep"
    /\ IF update_interval < 0
       THEN /\ pc' = "rc_finally"
            /\ runExit' = "error"
            /\ UNCHANGED <<now, ticks>>
       ELSE /\ ticks < MaxTicks
            /\ ticks' = ticks + 1
            /\ now' = now + update_interval + j
            /\ pc' = "rc_update"
            /\ runExit' = runExit
    /\ UNCHANGED <<envVars, file, config, connVars, start_time, duration,
                   update_interval, calls, lastOp, lastResult, lastExt,
                   updObs, runUpdates, runExtUpdates, runDisconnects,
                   exit_code>>

\* Line 184: a KeyboardInterrupt delivered during the sleep.
RC_SleepInterrupt ==
    /\ pc = "rc_sleep"
    /\ update_interval >= 0
    /\ pc' = AfterSleepInterrupt
    /\ runExit' = "sleep_interrupt"
    /\ UNCHANGED <<envVars, file, config, connVars, now, runVars, calls,
                   lastOp, lastResult, lastExt, updObs, runUpdates,
                   runExtUpdates, runDisconnects, exit_code>>

\* Line 185.
RC_LoopUpdate(o) ==
    /\ pc = "rc_update"
    /\ RunUpdate(o)

\* Lines 191-192, then the return.
\* (Variant: disconnect is not reached after a caught error.)
RC_Finally_skipOnError(o) ==
    /\ pc = "rc_finally"
    /\ IF runExit = "error"
       THEN UNCHANGED <<connVars, lastExt, runDisconnects>>
       ELSE /\ DisconnectEff(o)
            /\ lastExt' = IF DisconnectCloses THEN 1 ELSE 0
            /\ runDisconnects' = runDisconnects + 1
    /\ RunReturns("None")
    /\ UNCHANGED <<envVars, file, config, now, runVars, calls, lastOp,
                   updObs, runUpdates, runExtUpdates, runExit>>

RC_Finally(o) ==
    /\ pc = "rc_finally"
    /\ DisconnectEff(o)
    /\ lastExt' = IF DisconnectCloses THEN 1 ELSE 0
    /\ runDisconnects' = runDisconnects + 1
    /\ RunReturns("None")
    /\ UNCHANGED <<envVars, file, config, now, runVars, calls, lastOp,
                   updObs, runUpdates, runExtUpdates, runExit>>

\* --------------------------------------------------------------- main
\* Lines 198-208: the environment variable, else the config file's
\* "client_id"; any failure to read it leaves None.
ResolveClientId(env, f) ==
    IF Truthy(env) THEN env
    ELSE IF ~f.exists THEN env
    ELSE IF JsonLoadFile(f).raised THEN None
    ELSE IF ConfigGetRaises(JsonLoadFile(f).value) THEN None
    ELSE ConfigGet(JsonLoadFile(f).value, "client_id")

\* Lines 198-217.
Main_Resolve ==
    /\ pc = "main"
    /\ lastOp' = "main"
    /\ IF ~Truthy(ResolveClientId(env_client_id, file))
       THEN pc' = "exited" /\ exit_code' = SomeInt(1)
       ELSE pc' = "main_init" /\ exit_code' = exit_code
    /\ UNCHANGED <<envVars, file, config, connVars, now, runVars, calls,
                   lastResult, lastExt, updObs, runObs>>

\* Lines 220-224: the manager is built; save_config writes the config when
\* the file is missing, and swallows a failure to write.
Main_Init(saved) ==
    /\ pc = "main_init"
    /\ pc' = "main_connect"
    /\ config' = load_config(file).value
    /\ file' = IF ~file.exists /\ saved
               THEN [exists |-> TRUE, readable |-> TRUE,
                     text |-> load_config(file).value]
               ELSE file
    /\ UNCHANGED <<envVars, connVars, now, runVars, calls, lastOp,
                   lastResult, lastExt, updObs, runObs, exit_code>>

\* Line 227: when the connect fails main falls off its end, and the
\* process exits with code 0.
Main_Connect(o) ==
    /\ pc = "main_connect"
    /\ ConnectEff(o)
    /\ lastResult' = IF o = "ok" THEN "True" ELSE "False"
    /\ IF o = "ok"
       THEN pc' = "main_update" /\ exit_code' = exit_code
       ELSE pc' = "exited" /\ exit_code' = SomeInt(0)
    /\ UNCHANGED <<envVars, file, config, now, runVars, calls, lastOp,
                   lastExt, updObs, runObs>>

\* Lines 229-234.
Main_Update(o) ==
    /\ pc = "main_update"
    /\ UpdateEff(MainArgs, o)
    /\ lastExt' = IF UpdateCallsExternal(MainArgs, o) THEN 1 ELSE 0
    /\ pc' = "main_run"
    /\ UNCHANGED <<envVars, file, config, connVars, now, runVars, calls,
                   lastOp, runObs, exit_code>>

\* ------------------------------------------------------ specifications
Next ==
    \/ Construct
    \/ \E o \in ConnectOutcomes : Connect(o)
    \/ \E o \in CloseOutcomes : Disconnect(o)
    \/ UpdateStatus
    \/ \E d \in Durations, o \in ConnectOutcomes : RunStart(d, o)
    \/ \E o \in UpdateOutcomes \cup InterruptOutcomes : RC_FirstUpdate(o)
    \/ RC_Check
    \/ \E j \in 0..MaxJitter : RC_Sleep(j)
    \/ RC_SleepInterrupt
    \/ \E o \in UpdateOutcomes \cup InterruptOutcomes : RC_LoopUpdate(o)
    \/ \E o \in CloseOutcomes : RC_Finally(o)
    \/ Main_Resolve
    \/ \E saved \in BOOLEAN : Main_Init(saved)
    \/ \E o \in ConnectOutcomes : Main_Connect(o)
    \/ \E o \in UpdateOutcomes : Main_Update(o)

Spec == Init /\ [][Next]_vars

\* update_status over every combination of arguments, on a manager a
\* client built and connected.
MergeConnect(o) ==
    /\ lastOp \in {"__init__", "connect"}
    /\ Connect(o)

MergeUpdate(args, o) ==
    /\ lastOp = "connect"
    /\ UpdateStatusWith(args, o)

NextMerge ==
    \/ Construct
    \/ \E o \in ConnectOutcomes : MergeConnect(o)
    \/ \E args \in AllArgs, o \in UpdateOutcomes : MergeUpdate(args, o)

SpecMerge == Init /\ [][NextMerge]_vars

\* run_continuous with no interrupt delivered. The program is one thread:
\* a run that can take its next step (the update call returns or raises,
\* the sleep ends) takes it.
RunStep ==
    \/ \E o \in UpdateOutcomes : RC_FirstUpdate(o)
    \/ RC_Check
    \/ \E j \in 0..MaxJitter : RC_Sleep(j)
    \/ \E o \in UpdateOutcomes : RC_LoopUpdate(o)
    \/ \E o \in CloseOutcomes : RC_Finally(o)

NextLive ==
    \/ Construct
    \/ \E o \in ConnectOutcomes : Connect(o)
    \/ \E d \in Durations, o \in ConnectOutcomes : RunStart(d, o)
    \/ RunStep
    \/ Main_Resolve
    \/ \E saved \in BOOLEAN : Main_Init(saved)
    \/ \E o \in ConnectOutcomes : Main_Connect(o)
    \/ \E o \in UpdateOutcomes : Main_Update(o)

SpecLive == Init /\ [][NextLive]_vars /\ WF_vars(RunStep)

\* -------------------------------------------------------------- claims
\* Positions inside a run_continuous call, and after it.
InRun == pc \in {"rc_first", "rc_check", "rc_sleep", "rc_update", "rc_finally"}
RunOver == lastOp = "run_continuous" /\ pc \in {"api", "exited"}
LoopExits == {"duration", "sleep_interrupt", "update_interrupt", "error"}

\* C1: a run with duration = 0 whose connect succeeded makes exactly one
\* update_status call, never reaches the loop body (the sleep and the update
\* after it), and calls disconnect exactly once.
C1_DurationZeroOneUpdate ==
    (lastOp = "run_continuous" /\ duration = SomeInt(0)
        /\ runExit \notin {"connect_failed", "raised"})
    => /\ pc \notin {"rc_sleep", "rc_update"}
       /\ runUpdates <= 1
       /\ RunOver => (runUpdates = 1 /\ runDisconnects = 1)

\* C2: once the run has connected, no disconnect call is made before the
\* loop is left, the loop is left only for one of the listed reasons, and
\* when the run has returned after any of them disconnect was called
\* exactly once.
C2_DisconnectOnceOnEveryExit ==
    /\ InRun => runDisconnects = 0
    /\ pc = "rc_finally" => runExit \in LoopExits
    /\ (RunOver /\ runExit \in LoopExits) => runDisconnects = 1

C2_Witness ==
    /\ RunOver
    /\ runExit = "error"
    /\ runUpdates = 1
    /\ runDisconnects = 1

UpdateStatusStep ==
    pc = "api" /\ calls' = calls + 1 /\ lastOp' = "update_status"

\* C4: an update_status call made while is_connected is False returns False
\* and makes no rpc.update call.
C4_DisconnectedUpdateRefused ==
    [][(UpdateStatusStep /\ ~is_connected)
        => (lastResult' = "False" /\ lastExt' = 0 /\ lastPayload' = NoPayload)]_vars

\* update_status refused after a connect and a disconnect that both
\* succeeded: the handle is still there, the flag is down.
C4_Witness ==
    /\ lastOp = "update_status"
    /\ pc = "api"
    /\ ~is_connected
    /\ rpc # 0
    /\ nextHandle = 1
    /\ live = {}
    /\ lastResult = "False"

\* A client's disconnect call.
DisconnectStep ==
    pc = "api" /\ calls' = calls + 1 /\ lastOp' = "disconnect"

\* C5: a disconnect call that directly follows a disconnect call raises
\* nothing and makes no rpc.close call.
C5_SecondDisconnectNoClose ==
    [][(DisconnectStep /\ lastOp = "disconnect")
        => (lastResult' = "None" /\ lastExt' = 0)]_vars

\* C6: in the payload sent, each config-backed field whose argument is not
\* None carries the argument, and each whose argument is None carries the
\* config value (or is left out).
C6_ExplicitArgumentSent ==
    (lastOp = "update_status" /\ lastExt = 1)
    => \A k \in RequiredKeys \cup SmallKeys :
          IF lastArgs[k] # None
          THEN k \in DOMAIN lastPayload /\ lastPayload[k] = lastArgs[k]
          ELSE k \in DOMAIN lastPayload => lastPayload[k] = ConfigGet(config, k)

\* C7: main exits non-zero when no client ID is found or when its connect
\* fails, and exits 0 only after a run stopped by an interrupt or by its
\* duration.
C7_ExitCodes ==
    pc = "exited"
    => /\ lastOp = "main" => exit_code # SomeInt(0)
       /\ exit_code = SomeInt(0)
             => (lastOp = "run_continuous"
                 /\ runExit \in {"duration", "sleep_interrupt", "update_interrupt"})

\* The update_status call of the loop body (line 185) returned False.
FailedLoopUpdateStep ==
    pc = "rc_update" /\ runUpdates' = runUpdates + 1 /\ lastResult' = "False"

\* C8: a loop update that fails returns False after at most one rpc.update
\* call, leaves the manager Connected and the run in its loop (no
\* disconnect, no exit); from the loop's test the run, unless its duration
\* has elapsed, goes to the next sleep, and a completed sleep is followed by
\* the next update_status call.
C8_FailedUpdateKeepsLooping ==
    [][/\ FailedLoopUpdateStep
          => /\ pc' = "rc_check"
             /\ is_connected /\ is_connected'
             /\ runExtUpdates' <= runExtUpdates + 1
             /\ runExit' = "none"
             /\ runDisconnects' = 0
       /\ (pc = "rc_check" /\ ~DurationElapsed) => pc' = "rc_sleep"
       /\ (pc = "rc_sleep" /\ ticks' = ticks + 1) => pc' = "rc_update"]_vars

\* The second update (the first of the loop) failed in rpc.update, and the
\* run has slept again and stands before its third update.
C8_Witness ==
    /\ pc = "rc_update"
    /\ ticks = 2
    /\ runUpdates = 2
    /\ runExtUpdates = 2
    /\ lastResult = "False"
    /\ is_connected
    /\ runExit = "none"

\* C9: a run whose sleep was interrupted is in its finally clause or over,
\* having made no update_status call since the interrupt: one call before
\* the loop and one after each completed sleep; and when it is over
\* disconnect was called exactly once.
C9_SleepInterruptGoesToDisconnect ==
    (lastOp = "run_continuous" /\ runExit = "sleep_interrupt")
    => /\ pc \in {"rc_finally", "api", "exited"}
       /\ runUpdates = ticks + 1
       /\ pc = "rc_finally" => runDisconnects = 0
       /\ pc \in {"api", "exited"} => runDisconnects = 1

\* The sleep after the second update was interrupted: two updates, then one
\* disconnect.
C9_Witness ==
    /\ RunOver
    /\ runExit = "sleep_interrupt"
    /\ ticks = 1
    /\ runUpdates = 2
    /\ runDisconnects = 1

\* A config file that is missing, cannot be opened, or is no JSON.
BadConfigFile == ~file.exists \/ ~file.readable \/ file.text.kind = "garbage"

\* C10: a manager built by a client over a bad config file holds a dict
\* with the documented defaults in every documented field, and __init__
\* raised nothing.
C10_BadFileGivesDefaults ==
    (driver = "api" /\ pc # "new" /\ BadConfigFile)
    => /\ lastOp = "__init__" => lastResult = "None"
       /\ ~ConfigGetRaises(config)
       /\ {"state", "details", "large_image", "large_text", "small_image",
           "small_text", "update_interval"} \subseteq DOMAIN config.items
       /\ ConfigGet(config, "state") = "Playing a game"
       /\ ConfigGet(config, "details") = "Enjoying Discord"
       /\ ConfigGet(config, "large_image") = "discord"
       /\ ConfigGet(config, "large_text") = "Discord Rich Presence"
       /\ ConfigGet(config, "small_image") = None
       /\ ConfigGet(config, "small_text") = None
       /\ ConfigGet(config, "update_interval") = 15

\* The file is there and opens, and json.load rejects it.
C10_Witness ==
    /\ driver = "api"
    /\ lastOp = "__init__"
    /\ file.exists
    /\ file.readable
    /\ file.text.kind = "garbage"
    /\ ConfigGet(config, "update_interval") = 15

\* A run with a positive duration and a positive update interval.
PositiveRun ==
    /\ lastOp = "run_continuous"
    /\ duration # NoneInt
    /\ duration[1] > 0
    /\ update_interval > 0

\* C11: with no interrupt delivered, a run with a positive duration D and a
\* positive update interval leaves its loop at the first loop test that
\* finds more than D seconds elapsed, and every such run ends, by its
\* duration, with disconnect called, whether its updates succeed or raise.
C11_PositiveDurationTerminates ==
    /\ [][(PositiveRun /\ pc = "rc_check" /\ (now - start_time) > duration[1])
            => (pc' = "rc_finally" /\ runExit' = "duration")]_vars
    /\ (PositiveRun /\ InRun)
          ~> (PositiveRun /\ RunOver /\ runExit = "duration" /\ runDisconnects = 1)

\* A run over 10 seconds at an interval of 7 has ended after two sleeps and
\* three updates.
C11_Witness ==
    /\ PositiveRun
    /\ RunOver
    /\ runExit = "duration"
    /\ update_interval = 7
    /\ ticks = 2
    /\ runUpdates = 3
    /\ runDisconnects = 1

\* C12: at most one handle is open (connected, close() not yet called) at
\* any time, the open handle is the one self.rpc holds (none was dropped by
\* being overwritten), and when a disconnect call, a client's or the one
\* ending a run, has returned, no handle is left open.
C12_SingleHandleOwnership ==
    /\ Cardinality(live) <= 1
    /\ live \subseteq {rpc}
    /\ ((RunOver /\ runExit \in LoopExits) \/ (lastOp = "disconnect" /\ pc = "api"))
          => live = {}

====
